---- MODULE Spec2Model ----
(***************************************************************************)
(* State-machine model of the AtLAST sensitivity calculator:               *)
(* atlast_sc.calculator.Calculator, atlast_sc.config.Config and the        *)
(* parameter accessor classes in atlast_sc.parameters.                     *)
(*                                                                         *)
(* Physical quantities are records [v, unit]: v is the magnitude in the    *)
(* base unit of the dimension (micro-Jy for flux density, seconds for      *)
(* time, frequency ticks for obs_freq / bandwidth) and unit is the unit    *)
(* the Quantity is expressed in.  Quantity.to(unit) keeps v and changes    *)
(* unit.  Floating point arithmetic is modelled in integers with rounding  *)
(* to nearest.                                                             *)
(***************************************************************************)
EXTENDS Integers, Sequences, FiniteSets, TLC

\* Largest number of public calls made on one Calculator instance.
MaxOps == 3

Q(v, unit) == [v |-> v, unit |-> unit]

\* Python's None where a Quantity is expected.
None == Q(-1, "none")

\* Division rounded to the nearest integer (a >= 0, b > 0).
RDiv(a, b) == (a + (b \div 2)) \div b

RECURSIVE SqrtSearch(_, _, _)
SqrtSearch(x, lo, hi) ==
    IF lo >= hi THEN lo
    ELSE LET mid == (lo + hi + 1) \div 2
         IN  IF mid * mid <= x THEN SqrtSearch(x, mid, hi)
                               ELSE SqrtSearch(x, lo, mid - 1)

\* np.sqrt on a non-negative integer, rounded to the nearest integer.
ISqrt(x) ==
    LET f == SqrtSearch(x, 0, 46340)
    IN  IF x - f * f > f THEN f + 1 ELSE f

(***************************************************************************)
(* The parameter model (atlast_sc.models): field names, defaults, bounds.  *)
(***************************************************************************)
UserInputFields ==
    {"t_int", "sensitivity", "bandwidth", "obs_freq", "n_pol", "weather",
     "elevation"}

DefaultUnit(field) ==
    CASE field = "t_int"       -> "s"
      [] field = "sensitivity" -> "mJy"
      [] field = "bandwidth"   -> "GHz"
      [] field = "obs_freq"    -> "GHz"
      [] field = "elevation"   -> "deg"
      [] field = "dish_radius" -> "m"
      [] OTHER                 -> ""

DefaultValue(field) ==
    CASE field = "t_int"       -> 100
      [] field = "sensitivity" -> 3000
      [] field = "bandwidth"   -> 4
      [] field = "obs_freq"    -> 100
      [] field = "n_pol"       -> 2
      [] field = "weather"     -> 25
      [] field = "elevation"   -> 45
      [] field = "dish_radius" -> 25

\* Declared bounds of each field, in base units.
LowerValue(field) ==
    CASE field = "t_int"       -> 1
      [] field = "sensitivity" -> 100
      [] field = "bandwidth"   -> 1
      [] field = "obs_freq"    -> 35
      [] field = "n_pol"       -> 1
      [] field = "weather"     -> 5
      [] field = "elevation"   -> 25
      [] field = "dish_radius" -> 1

UpperValue(field) ==
    CASE field = "t_int"       -> 1000000
      [] field = "sensitivity" -> 1200000
      [] field = "bandwidth"   -> 16
      [] field = "obs_freq"    -> 950
      [] field = "n_pol"       -> 2
      [] field = "weather"     -> 95
      [] field = "elevation"   -> 85
      [] field = "dish_radius" -> 50

\* DataHelper.validate: TRUE when the value is accepted, FALSE when it
\* raises ValueOutOfRangeException.
InRange(field, value) ==
    value.v >= LowerValue(field) /\ value.v <= UpperValue(field)

\* CalculationInput before a Calculator exists.
NoInputs ==
    [f \in UserInputFields \cup {"dish_radius"} |-> None]

\* UserInput(**user_input) and InstrumentSetup(): supplied values merged
\* over the defaults.
MergedInputs(user_input) ==
    [f \in UserInputFields \cup {"dish_radius"} |->
        IF f \in DOMAIN user_input THEN user_input[f]
        ELSE Q(DefaultValue(f), DefaultUnit(f))]

\* The model's value validation at construction.
InputsValid(user_input) ==
    \A f \in DOMAIN user_input \cap UserInputFields :
        InRange(f, user_input[f])

(***************************************************************************)
(* Derived groups (atlast_sc.derived_groups): atmosphere, temperatures,    *)
(* efficiencies.                                                           *)
(***************************************************************************)
\* Frequency column of the tabulated atmosphere model (tau_atm_table[:, 0]).
FreqGrid == <<96, 100, 104, 108>>

\* The table lookups hold the value at the nearest edge of the tabulated
\* frequency range for a frequency outside it.
TableFreq(freq) == IF freq < 90 THEN 90 ELSE IF freq > 110 THEN 110 ELSE freq

\* AtmosphereParams.calculate_tau_atm, in units of 0.01.
calculate_tau_atm(freq, weather, elevation) ==
    ((TableFreq(freq) - 80) * weather) \div elevation

\* AtmosphereParams.calculate_atmospheric_temperature, in K.
calculate_atmospheric_temperature(freq, weather) ==
    250 + (weather \div 5) + (TableFreq(freq) - 100)

\* Temperatures(...): receiver, sky and system temperature, in K.
Temperatures(freq, T_atm, tau_atm) ==
    LET T_rx  == 32
        T_sky == (T_atm * tau_atm) \div 100
    IN  [T_rx |-> T_rx, T_sky |-> T_sky, T_sys |-> T_rx + T_sky + 10]

\* Efficiencies(...): eta_a in percent, eta_s in tenths.
Efficiencies(obs_freq) ==
    [eta_a |-> 70 - (TableFreq(obs_freq) - 100), eta_s |-> 8]

(***************************************************************************)
(* Calculator._calculate_sefd and Calculator._calculate_derived_parameters *)
(***************************************************************************)
\* sefd = 2 k_B T_sys / (eta_a pi dish_radius^2); the factor 2 k_B / pi and
\* the percent scale of eta_a are folded into the numerator.
_calculate_sefd(T_sys, eta_a, dish_radius) ==
    RDiv(1400000 * T_sys, eta_a * dish_radius * dish_radius)

RECURSIVE SumSeq(_)
SumSeq(s) == IF s = << >> THEN 0 ELSE Head(s) + SumSeq(Tail(s))

\* Grid frequencies strictly inside the band, padded with the band edges.
PaddedFreqList(obs_freq_low, obs_freq_upp) ==
    <<obs_freq_low>>
      \o SelectSeq(FreqGrid, LAMBDA g : g > obs_freq_low /\ g < obs_freq_upp)
      \o <<obs_freq_upp>>

\* SEFD of one narrow spectral element centred on freq.
ChannelSefd(freq, inputs, eta_a) ==
    LET _tau_atm == calculate_tau_atm(freq, inputs.weather.v,
                                      inputs.elevation.v)
        _T_atm   == calculate_atmospheric_temperature(freq, inputs.weather.v)
        _temps   == Temperatures(freq, _T_atm, _tau_atm)
    IN  _calculate_sefd(_temps.T_sys, eta_a, inputs.dish_radius.v)

\* The sum taken over obs_band_list / _sefd, the channel SEFD not squared.
EffectiveSefd_Unsquared(bandwidth, obs_band_list, _sefd) ==
    LET terms == [i \in 1..Len(_sefd) |->
                    RDiv(obs_band_list[i] * 1000000, _sefd[i])]
    IN  ISqrt(RDiv(bandwidth * 1000000, SumSeq(terms)))

\* sqrt(bandwidth / sum(obs_band_list / _sefd ** 2)).  Numerator and
\* denominator are both divided by _sefd[1] ** 2, so that the sum is taken
\* over the ratios _sefd[1] / _sefd[i], kept to four decimal digits:
\*   _sefd[1] / sqrt(sum(obs_band_list * (_sefd[1] / _sefd) ** 2) / bandwidth)
EffectiveSefd(bandwidth, obs_band_list, _sefd) ==
    LET ratio == [i \in 1..Len(_sefd) |-> RDiv(_sefd[1] * 10000, _sefd[i])]
        terms == [i \in 1..Len(_sefd) |->
                    obs_band_list[i] * RDiv(ratio[i] * ratio[i], 10)]
        mean  == RDiv(SumSeq(terms), bandwidth)
    IN  RDiv(_sefd[1] * 10000, ISqrt(10 * mean))

\* The sub-channels of the band: widths, midpoints and per-channel SEFD.
FinetuneChannels(inputs, eta_a) ==
    LET obs_freq      == inputs.obs_freq.v
        bandwidth     == inputs.bandwidth.v
        obs_freq_low  == obs_freq - (bandwidth \div 2)
        obs_freq_upp  == obs_freq + (bandwidth \div 2)
        obs_freq_list == PaddedFreqList(obs_freq_low, obs_freq_upp)
        n             == Len(obs_freq_list)
        mid_freq_list == [i \in 1..(n - 1) |->
                            (obs_freq_list[i + 1] + obs_freq_list[i]) \div 2]
    IN  [obs_freq_list |-> obs_freq_list,
         obs_band_list |-> [i \in 1..(n - 1) |->
                              obs_freq_list[i + 1] - obs_freq_list[i]],
         mid_freq_list |-> mid_freq_list,
         _sefd         |-> [i \in 1..(n - 1) |->
                              ChannelSefd(mid_freq_list[i], inputs, eta_a)]]

_calculate_derived_parameters(inputs, finetune) ==
    LET obs_freq  == inputs.obs_freq.v
        bandwidth == inputs.bandwidth.v
        eta       == Efficiencies(obs_freq)
        tau_atm   == calculate_tau_atm(obs_freq, inputs.weather.v,
                                       inputs.elevation.v)
        T_atm     == calculate_atmospheric_temperature(obs_freq,
                                                       inputs.weather.v)
        temps     == Temperatures(obs_freq, T_atm, tau_atm)
        channels  == FinetuneChannels(inputs, eta.eta_a)
        sefd == IF finetune /\ Len(channels.obs_freq_list) > 1
                THEN EffectiveSefd(bandwidth, channels.obs_band_list,
                                   channels._sefd)
                ELSE _calculate_sefd(temps.T_sys, eta.eta_a,
                                     inputs.dish_radius.v)
    IN  [tau_atm |-> tau_atm, T_atm |-> T_atm, T_rx |-> temps.T_rx,
         eta_a |-> eta.eta_a, eta_s |-> eta.eta_s, T_sys |-> temps.T_sys,
         T_sky |-> temps.T_sky, sefd |-> sefd]

\* DerivedParams before a Calculator exists.
NoDerived ==
    [tau_atm |-> -1, T_atm |-> -1, T_rx |-> -1, eta_a |-> -1, eta_s |-> -1,
     T_sys |-> -1, T_sky |-> -1, sefd |-> -1]

(***************************************************************************)
(* The radiometer equation and the output unit tiers.                      *)
(***************************************************************************)
\* 10 * sqrt(x), keeping one decimal digit where the integers allow it.
Sqrt10(x) == IF x <= 20000000 THEN ISqrt(100 * x) ELSE 10 * ISqrt(x)

\* sefd / (eta_s * sqrt(n_pol * bandwidth * t_int)), in micro-Jy.
SensitivityFormula(sefd, eta_s, n_pol, bandwidth, t_int) ==
    RDiv(sefd * 100000, eta_s * Sqrt10(n_pol * bandwidth * t_int))

\* TIntFormula with n_pol left out of the divisor.
TIntFormula_WithoutNPol(sefd, eta_s, n_pol, bandwidth, sensitivity) ==
    LET num == sefd * 10000
        den == sensitivity * eta_s
    IN  IF num \div den < 4000
        THEN RDiv(RDiv(10 * num, den) * RDiv(10 * num, den), 100 * bandwidth)
        ELSE RDiv(RDiv(num, den) * RDiv(num, den), bandwidth)

\* (sefd / (sensitivity * eta_s)) ** 2 / (n_pol * bandwidth), in seconds.
TIntFormula(sefd, eta_s, n_pol, bandwidth, sensitivity) ==
    LET num == sefd * 10000
        den == sensitivity * eta_s
    IN  IF num \div den < 4000
        THEN RDiv(RDiv(10 * num, den) * RDiv(10 * num, den),
                  100 * n_pol * bandwidth)
        ELSE RDiv(RDiv(num, den) * RDiv(num, den), n_pol * bandwidth)

\* SensitivityUnit with the 1 mJy comparison made inclusive.
SensitivityUnit_InclusiveBelow(uJy) ==
    IF uJy <= 1000 THEN "uJy"
    ELSE IF uJy < 1000000 THEN "mJy"
    ELSE "Jy"

\* Lines 88-94: the unit the sensitivity is converted to.
SensitivityUnit(uJy) ==
    IF uJy < 1000 THEN "uJy"
    ELSE IF uJy >= 1000 /\ uJy < 1000000 THEN "mJy"
    ELSE IF uJy >= 1000000 THEN "Jy"
    ELSE "J/m2"

\* Lines 140-146: the unit the integration time is converted to.
TimeUnit(s) ==
    IF s < 60 THEN "s"
    ELSE IF s >= 60 /\ s < 3600 THEN "min"
    ELSE IF s >= 3600 THEN "h"
    ELSE "s"

(***************************************************************************)
(* State                                                                   *)
(***************************************************************************)
VARIABLES
    pc,                  \* "new", "failed" (constructor raised) or "ready"
    _finetune,           \* Calculator._finetune
    _calculation_inputs, \* Config._calculation_inputs (the live inputs)
    _original_inputs,    \* Config._original_inputs (the snapshot)
    aliased,             \* _calculation_inputs is _original_inputs
    _derived_parameters, \* DerivedParameters._derived_parameters
    sensitivity,         \* the attribute Calculator.sensitivity
    t_int,               \* the attribute Calculator.t_int
    ctor,                \* what the constructor did (history)
    ret,                 \* the last public call and its outcome (history)
    prev,                \* the public call before it (history)
    nops                 \* number of public calls made on the instance

vars == <<pc, _finetune, _calculation_inputs, _original_inputs, aliased,
          _derived_parameters, sensitivity, t_int, ctor, ret, prev, nops>>

\* The calculator's own state, without the history variables.
calcState == <<_finetune, _calculation_inputs, _original_inputs, aliased,
               _derived_parameters, sensitivity, t_int>>

NoCall ==
    [op |-> "none", arg |-> None, upd |-> FALSE, used |-> None,
     val |-> None, raised |-> FALSE, warned |-> FALSE, names |-> {}]

Call(op, arg, upd, used, val, raised, warned) ==
    [op |-> op, arg |-> arg, upd |-> upd, used |-> used, val |-> val,
     raised |-> raised, warned |-> warned, names |-> {}]

EmptyInput == [f \in {} |-> None]

Init ==
    /\ pc = "new"
    /\ _finetune = FALSE
    /\ _calculation_inputs = NoInputs
    /\ _original_inputs = NoInputs
    /\ aliased = FALSE
    /\ _derived_parameters = NoDerived
    /\ sensitivity = None
    /\ t_int = None
    /\ ctor = [user_input |-> EmptyInput, error |-> "none",
               config_built |-> FALSE, derived_computed |-> FALSE,
               inputs |-> NoInputs]
    /\ ret = NoCall
    /\ prev = NoCall
    /\ nops = 0

(***************************************************************************)
(* Calculator.__init__                                                     *)
(***************************************************************************)
\* TRUE when every supplied name is a UserInput field, FALSE when the
\* ValueError is raised.
_check_input_param_names(user_input) ==
    \A param \in DOMAIN user_input : param \in UserInputFields

\* InitOutcome with the name check moved after Config(...) and the derived
\* parameters.
InitOutcome_NamesCheckedLast(user_input) ==
    IF ~InputsValid(user_input)
    THEN [error |-> "validation", config_built |-> FALSE,
          derived_computed |-> FALSE]
    ELSE IF ~_check_input_param_names(user_input)
    THEN [error |-> "naming", config_built |-> TRUE,
          derived_computed |-> TRUE]
    ELSE [error |-> "none", config_built |-> TRUE,
          derived_computed |-> TRUE]

\* The order of the constructor's steps: the name check, then Config(...),
\* then the derived parameters.
InitOutcome(user_input) ==
    IF ~_check_input_param_names(user_input)
    THEN [error |-> "naming", config_built |-> FALSE,
          derived_computed |-> FALSE]
    ELSE IF ~InputsValid(user_input)
    THEN [error |-> "validation", config_built |-> FALSE,
          derived_computed |-> FALSE]
    ELSE [error |-> "none", config_built |-> TRUE,
          derived_computed |-> TRUE]

Calculator_init(user_input, finetune) ==
    LET outcome == InitOutcome(user_input)
        inputs  == MergedInputs(user_input)
    IN
    /\ pc = "new"
    /\ IF outcome.error = "none"
       THEN /\ pc' = "ready"
            /\ _finetune' = finetune
            /\ _calculation_inputs' = inputs
            /\ _original_inputs' = inputs
            /\ aliased' = FALSE
            /\ _derived_parameters' =
                   _calculate_derived_parameters(inputs, finetune)
            /\ sensitivity' = inputs.sensitivity
            /\ t_int' = None
            /\ ctor' = [user_input |-> user_input, error |-> "none",
                        config_built |-> TRUE, derived_computed |-> TRUE,
                        inputs |-> inputs]
       ELSE /\ pc' = "failed"
            /\ ctor' = [user_input |-> user_input, error |-> outcome.error,
                        config_built |-> outcome.config_built,
                        derived_computed |-> outcome.derived_computed,
                        inputs |-> NoInputs]
            /\ UNCHANGED calcState
    /\ UNCHANGED <<ret, prev, nops>>

(***************************************************************************)
(* Setters of UserInputParameters and InstrumentSetupParameters            *)
(***************************************************************************)
\* A write through config.calculation_inputs reaches the snapshot too once
\* both names refer to the same object.
WriteInputs(new) ==
    /\ _calculation_inputs' = new
    /\ _original_inputs' = IF aliased THEN new ELSE _original_inputs

\* Decorators.validate_and_update_params: once the value is stored the
\* derived parameters are recomputed from the new inputs and replace the
\* stored ones.  Decorators.validate_value leaves them alone.
DerivedAfterSet(new, update_params) ==
    IF update_params
    THEN _calculate_derived_parameters(new, _finetune)
    ELSE _derived_parameters

\* A decorated setter: the value is validated, then the setter body stores
\* it (and its unit) in the field of the live inputs.
Setter(field, value, update_params) ==
    /\ pc = "ready"
    /\ nops < MaxOps
    /\ nops' = nops + 1
    /\ prev' = ret
    /\ IF InRange(field, value)
       THEN LET new == [_calculation_inputs EXCEPT ![field] = value]
            IN  /\ WriteInputs(new)
                /\ _derived_parameters' = DerivedAfterSet(new, update_params)
                /\ ret' = Call(field, value, TRUE, None, None, FALSE, FALSE)
       ELSE /\ UNCHANGED <<_calculation_inputs, _original_inputs,
                           _derived_parameters>>
            /\ ret' = Call(field, value, TRUE, None, None, TRUE, FALSE)
    /\ UNCHANGED <<pc, _finetune, aliased, sensitivity, t_int, ctor>>

obs_freq_setter(value)    == Setter("obs_freq", value, TRUE)
bandwidth_setter(value)   == Setter("bandwidth", value, TRUE)
weather_setter(value)     == Setter("weather", value, TRUE)
elevation_setter(value)   == Setter("elevation", value, TRUE)
dish_radius_setter(value) == Setter("dish_radius", value, TRUE)
n_pol_setter(value)       == Setter("n_pol", value, FALSE)

(***************************************************************************)
(* Calculator.calculate_sensitivity / calculate_t_integration / reset      *)
(***************************************************************************)
\* StoreTInt with the update_calculator test dropped: an explicit t_int is
\* always written.
StoreTInt_IgnoresFlag(inputs, t_arg, update_calculator) ==
    IF t_arg # None THEN [inputs EXCEPT !.t_int = t_arg] ELSE inputs

\* Lines 75-81: the inputs after the t_int argument was handled.  Only an
\* explicit t_int with update_calculator set goes through the t_int setter.
StoreTInt(inputs, t_arg, update_calculator) ==
    IF t_arg # None /\ update_calculator
    THEN [inputs EXCEPT !.t_int = t_arg]
    ELSE inputs

\* Lines 128-134: the attribute Calculator.sensitivity after the sensitivity
\* argument was handled.
StoreSensitivity(current, s_arg, update_calculator) ==
    IF s_arg # None /\ update_calculator THEN s_arg ELSE current

\* Lines 75-81 and 128-134: TRUE when handling the argument raises
\* ValueOutOfRangeException.  The t_int setter and DataHelper.validate check
\* the bounds; Calculator.sensitivity is a plain attribute and checks nothing.
TIntArgRaises(t_arg, update_calculator) ==
    t_arg # None /\ ~InRange("t_int", t_arg)

SensitivityArgRaises(s_arg, update_calculator) ==
    s_arg # None /\ ~update_calculator /\ ~InRange("sensitivity", s_arg)

\* Lines 97-107 and 149-154: "self.sensitivity = ..." and "self.t_int = ..."
\* assign plain attributes of the Calculator, so the assignment never raises
\* and the except branch with its warning is never entered.
StoreCalculated(current, result, update_calculator) ==
    [stored |-> IF update_calculator THEN result ELSE current,
     warned |-> FALSE]

calculate_sensitivity(t_arg, update_calculator) ==
    /\ pc = "ready"
    /\ nops < MaxOps
    /\ nops' = nops + 1
    /\ prev' = ret
    /\ IF TIntArgRaises(t_arg, update_calculator)
       THEN /\ ret' = Call("calculate_sensitivity", t_arg, update_calculator,
                           None, None, TRUE, FALSE)
            /\ UNCHANGED calcState
       ELSE LET new    == StoreTInt(_calculation_inputs, t_arg,
                                    update_calculator)
                t      == IF t_arg # None THEN t_arg ELSE new.t_int
                uJy    == SensitivityFormula(_derived_parameters.sefd,
                                             _derived_parameters.eta_s,
                                             new.n_pol.v, new.bandwidth.v,
                                             t.v)
                result == Q(uJy, SensitivityUnit(uJy))
                commit == StoreCalculated(sensitivity, result,
                                          update_calculator)
            IN  /\ WriteInputs(new)
                /\ sensitivity' = commit.stored
                /\ ret' = Call("calculate_sensitivity", t_arg,
                               update_calculator, t, result, FALSE,
                               commit.warned)
                /\ UNCHANGED <<_finetune, aliased, _derived_parameters,
                               t_int>>
    /\ UNCHANGED <<pc, ctor>>

calculate_t_integration(s_arg, update_calculator) ==
    /\ pc = "ready"
    /\ nops < MaxOps
    /\ nops' = nops + 1
    /\ prev' = ret
    /\ IF SensitivityArgRaises(s_arg, update_calculator)
       THEN /\ ret' = Call("calculate_t_integration", s_arg,
                           update_calculator, None, None, TRUE, FALSE)
            /\ UNCHANGED calcState
       ELSE LET attr   == StoreSensitivity(sensitivity, s_arg,
                                           update_calculator)
                s      == IF s_arg # None THEN s_arg ELSE attr
                secs   == TIntFormula(_derived_parameters.sefd,
                                      _derived_parameters.eta_s,
                                      _calculation_inputs.n_pol.v,
                                      _calculation_inputs.bandwidth.v, s.v)
                result == Q(secs, TimeUnit(secs))
                commit == StoreCalculated(t_int, result, update_calculator)
            IN  /\ sensitivity' = attr
                /\ t_int' = commit.stored
                /\ ret' = Call("calculate_t_integration", s_arg,
                               update_calculator, s, result, FALSE,
                               commit.warned)
                /\ UNCHANGED <<_finetune, _calculation_inputs,
                               _original_inputs, aliased,
                               _derived_parameters>>
    /\ UNCHANGED <<pc, ctor>>

\* Config.reset: the live inputs become the snapshot object itself.
Config_reset ==
    /\ _calculation_inputs' = _original_inputs
    /\ aliased' = TRUE
    /\ UNCHANGED _original_inputs

\* Calculator.reset, lines 167-169: what is stored as the derived parameters
\* after the recalculation.  The value _calculate_derived_parameters returns
\* is not assigned to anything.
DerivedAfterReset(stored, recalculated) == stored

reset ==
    /\ pc = "ready"
    /\ nops < MaxOps
    /\ nops' = nops + 1
    /\ prev' = ret
    /\ Config_reset
    /\ _derived_parameters' =
           DerivedAfterReset(_derived_parameters,
               _calculate_derived_parameters(_original_inputs, _finetune))
    /\ ret' = Call("reset", None, FALSE, None, None, FALSE, FALSE)
    /\ UNCHANGED <<pc, _finetune, sensitivity, t_int, ctor>>

(***************************************************************************)
(* Inputs                                                                  *)
(***************************************************************************)
UserInputChoices ==
    { EmptyInput,
      [f \in {"obs_freq"} |-> Q(102, "GHz")],
      [f \in {"n_pol"} |-> Q(1, "")],
      [f \in {"obs_freq"} |-> Q(20, "GHz")],
      [f \in {"foo"} |-> Q(1, "")],
      [f \in {"foo", "obs_freq"} |->
          IF f = "foo" THEN Q(1, "") ELSE Q(20, "GHz")] }

TIntArgs ==
    { Q(1, "s"), Q(979056, "s"), Q(1000000, "h"), Q(0, "s") }

SensitivityArgs ==
    { Q(127563, "mJy"), Q(16495, "mJy"), Q(900, "uJy"), Q(2000000, "Jy") }

\* The sensitivity handed to calculate_t_integration: a chosen value, or
\* the value the previous calculate_sensitivity call returned.
SensitivityInputs ==
    SensitivityArgs \cup
        (IF ret.op = "calculate_sensitivity" /\ ~ret.raised
         THEN {ret.val} ELSE {})

Next ==
    \/ \E ui \in UserInputChoices, ft \in BOOLEAN : Calculator_init(ui, ft)
    \/ \E v \in {100, 102, 20} : obs_freq_setter(Q(v, "GHz"))
    \/ \E v \in {4, 12} : bandwidth_setter(Q(v, "GHz"))
    \/ \E v \in {25, 50} : weather_setter(Q(v, ""))
    \/ \E v \in {45, 60} : elevation_setter(Q(v, "deg"))
    \/ \E v \in {25, 30} : dish_radius_setter(Q(v, "m"))
    \/ \E v \in {1, 2} : n_pol_setter(Q(v, ""))
    \/ \E t \in TIntArgs \cup {None}, upd \in BOOLEAN :
           calculate_sensitivity(t, upd)
    \/ \E s \in SensitivityInputs \cup {None}, upd \in BOOLEAN :
           calculate_t_integration(s, upd)
    \/ reset

Spec == Init /\ [][Next]_vars

(***************************************************************************)
(* Round trips: calculate_sensitivity(t_int, update_calculator=False)      *)
(* followed by calculate_t_integration of the returned sensitivity, on a   *)
(* freshly constructed calculator.                                         *)
(***************************************************************************)
\* The integration times tried are 1..MaxTIntProbe seconds, minutes and
\* hours, and the largest valid ones.
MaxTIntProbe == 40

RoundTripTInts ==
    (1..MaxTIntProbe)
        \cup {60 * k : k \in 1..MaxTIntProbe}
        \cup {3600 * k : k \in 1..MaxTIntProbe}
        \cup {UpperValue("t_int") - 1000 * k : k \in 0..MaxTIntProbe}

RoundTripUserInputs ==
    { [f \in {"obs_freq", "bandwidth", "n_pol", "weather"} |->
          CASE f = "obs_freq"  -> Q(fr, "GHz")
            [] f = "bandwidth" -> Q(bw, "GHz")
            [] f = "n_pol"     -> Q(np, "")
            [] f = "weather"   -> Q(w, "")] :
      fr \in {100, 102}, bw \in {4, 12}, np \in {1, 2}, w \in {25, 50} }

InitRoundTrip ==
    \E user_input \in RoundTripUserInputs, finetune \in BOOLEAN :
        LET inputs == MergedInputs(user_input)
        IN  /\ pc = "ready"
            /\ _finetune = finetune
            /\ _calculation_inputs = inputs
            /\ _original_inputs = inputs
            /\ aliased = FALSE
            /\ _derived_parameters =
                   _calculate_derived_parameters(inputs, finetune)
            /\ sensitivity = inputs.sensitivity
            /\ t_int = None
            /\ ctor = [user_input |-> user_input, error |-> "none",
                       config_built |-> TRUE, derived_computed |-> TRUE,
                       inputs |-> inputs]
            /\ ret = NoCall
            /\ prev = NoCall
            /\ nops = 0

RoundTripOut(t) ==
    /\ nops = 0
    /\ calculate_sensitivity(Q(t, "s"), FALSE)

RoundTripBack ==
    /\ nops = 1
    /\ ret.op = "calculate_sensitivity"
    /\ ~ret.raised
    /\ calculate_t_integration(ret.val, FALSE)

NextRoundTrip ==
    \/ \E t \in RoundTripTInts : RoundTripOut(t)
    \/ RoundTripBack

SpecRoundTrip == InitRoundTrip /\ [][NextRoundTrip]_vars

(***************************************************************************)
(* Calculator.find_applicable_instruments and a specification that calls   *)
(* it on calculators built over frequencies and bandwidths around the      *)
(* table endpoints.                                                        *)
(***************************************************************************)
\* Quantity.value: the magnitude in the unit the Quantity is expressed in.
Magnitude(q) == IF q.unit = "MHz" THEN 1000 * q.v ELSE q.v

\* The keys of the two tables, in dictionary order.
InstrumentNames == <<"finer", "sepia", "chai", "tifuun", "gltcam", "muscat">>

instrument_obs_freqs ==
    [finer  |-> << <<120, 360>> >>,
     sepia  |-> << <<163, 211>>, <<272, 376>>, <<600, 722>> >>,
     chai   |-> << <<460, 500>>, <<780, 820>> >>,
     tifuun |-> << <<90, 360>> >>,
     gltcam |-> << <<130, 170>>, <<190, 250>>, <<250, 295>>, <<330, 365>>,
                   <<385, 415>>, <<630, 710>> >>,
     muscat |-> << <<250, 300>> >>]

instrument_bandw_vals ==
    [finer  |-> << <<10500, 3000000>> >>,
     sepia  |-> << <<10000, 5600000>>, <<10000, 32000000>>,
                   <<10000, 10000000>> >>,
     chai   |-> << <<10000, 1000000>>, <<10000, 1000000>> >>,
     tifuun |-> << <<10, 1000>> >>,
     gltcam |-> << <<1, 5>>, <<1, 5>>, <<1, 5>>, <<1, 5>>, <<1, 5>>,
                   <<1, 5>> >>,
     muscat |-> << <<1, 5>> >>]

\* The inner loop with the lower endpoint compared by >=.
AppendMatches_InclusiveMin(instrument, intervals, value) ==
    LET hits == SelectSeq(intervals,
                          LAMBDA tuple : value >= tuple[1] /\ value < tuple[2])
    IN  [i \in 1..Len(hits) |-> instrument]

\* The inner loop over one instrument's tuples: the instrument is appended
\* once for every tuple with min < value < max.
AppendMatches(instrument, intervals, value) ==
    LET hits == SelectSeq(intervals,
                          LAMBDA tuple : value > tuple[1] /\ value < tuple[2])
    IN  [i \in 1..Len(hits) |-> instrument]

\* The outer loop over the items of one table.
RECURSIVE ApplicableList(_, _, _)
ApplicableList(instruments, table, value) ==
    IF instruments = << >> THEN << >>
    ELSE AppendMatches(Head(instruments), table[Head(instruments)], value)
           \o ApplicableList(Tail(instruments), table, value)

\* set(list)
ToSet(list) == {list[i] : i \in DOMAIN list}

\* The returned list, as the set of its elements.
ApplicableInstruments(obs_freq, bandwidth) ==
    LET applicable_obs_freq_instruments ==
            ApplicableList(InstrumentNames, instrument_obs_freqs, obs_freq)
        applicable_bandw_instruments ==
            ApplicableList(InstrumentNames, instrument_bandw_vals, bandwidth)
    IN  ToSet(applicable_obs_freq_instruments)
            \cap ToSet(applicable_bandw_instruments)

find_applicable_instruments ==
    /\ pc = "ready"
    /\ nops < MaxOps
    /\ LET obs_freq  == Magnitude(_calculation_inputs.obs_freq)
           bandwidth == Magnitude(_calculation_inputs.bandwidth)
       IN  ret' = [Call("find_applicable_instruments", None, FALSE, None,
                        None, FALSE, FALSE)
                   EXCEPT !.names = ApplicableInstruments(obs_freq, bandwidth)]
    /\ prev' = ret
    /\ nops' = nops + 1
    /\ UNCHANGED <<pc, ctor>>
    /\ UNCHANGED calcState

\* Observing frequencies at, inside and outside the table's intervals.
InstrumentFreqs ==
    {90, 100, 120, 130, 163, 200, 250, 272, 300, 360, 365, 480, 650, 800}

\* Bandwidths given in GHz or in MHz.
InstrumentBandwidths ==
    {Q(v, unit) : v \in {1, 4, 5, 10, 11, 12, 16}, unit \in {"GHz", "MHz"}}

InstrumentUserInputs ==
    { [f \in {"obs_freq", "bandwidth"} |->
          IF f = "obs_freq" THEN Q(fr, "GHz") ELSE bw] :
      fr \in InstrumentFreqs, bw \in InstrumentBandwidths }

InitInstruments ==
    \E user_input \in InstrumentUserInputs :
        LET inputs == MergedInputs(user_input)
        IN  /\ InputsValid(user_input)
            /\ pc = "ready"
            /\ _finetune = FALSE
            /\ _calculation_inputs = inputs
            /\ _original_inputs = inputs
            /\ aliased = FALSE
            /\ _derived_parameters =
                   _calculate_derived_parameters(inputs, FALSE)
            /\ sensitivity = inputs.sensitivity
            /\ t_int = None
            /\ ctor = [user_input |-> user_input, error |-> "none",
                       config_built |-> TRUE, derived_computed |-> TRUE,
                       inputs |-> inputs]
            /\ ret = NoCall
            /\ prev = NoCall
            /\ nops = 0

NextInstruments == find_applicable_instruments

SpecInstruments == InitInstruments /\ [][NextInstruments]_vars

(***************************************************************************)
(* Properties                                                              *)
(***************************************************************************)
CalcOps == {"calculate_sensitivity", "calculate_t_integration"}

\* C1: immediately after a reset() the live inputs equal, field by field in
\* value and unit, the inputs the constructor built (and therefore a reset
\* directly after a reset changes nothing).
C1_ResetRestoresConstruction ==
    (pc = "ready" /\ ret.op = "reset") => _calculation_inputs = ctor.inputs

\* C2: the construction-time snapshot _original_inputs never changes: in
\* every state of a constructed calculator it holds the inputs the
\* constructor built.
C2_SnapshotNeverMutated ==
    pc = "ready" => _original_inputs = ctor.inputs

\* C3: between public calls the stored derived parameters are the derivation
\* of the current live inputs.
C3_DerivedNeverStale ==
    pc = "ready" =>
        _derived_parameters =
            _calculate_derived_parameters(_calculation_inputs, _finetune)

\* C4: after reset() the stored derived parameters are those derived from
\* the construction-time inputs.
C4_ResetRecomputesDerived ==
    (pc = "ready" /\ ret.op = "reset") =>
        _derived_parameters =
            _calculate_derived_parameters(ctor.inputs, _finetune)

\* C5: a calculate_* call with update_calculator true whose result is outside
\* the bounds of the target parameter warns and leaves the stored target as
\* it was before the call.
C5_RangeRollback ==
    [][ /\ (/\ nops' = nops + 1
            /\ ret'.op = "calculate_sensitivity"
            /\ ret'.upd /\ ~ret'.raised
            /\ ~InRange("sensitivity", ret'.val))
           => (ret'.warned /\ sensitivity' = sensitivity)
        /\ (/\ nops' = nops + 1
            /\ ret'.op = "calculate_t_integration"
            /\ ret'.upd /\ ~ret'.raised
            /\ ~InRange("t_int", ret'.val))
           => (/\ ret'.warned
               /\ t_int' = t_int
               /\ _calculation_inputs'.t_int = _calculation_inputs.t_int)
      ]_vars

\* C6: an in-bounds result committed by one calculate_* call is the input
\* the next call of the other calculation, made with no argument, uses.
C6_CommitFeedsNextCall ==
    /\ (/\ prev.op = "calculate_sensitivity" /\ prev.upd /\ ~prev.raised
        /\ InRange("sensitivity", prev.val)
        /\ ret.op = "calculate_t_integration" /\ ret.arg = None)
       => ret.used = prev.val
    /\ (/\ prev.op = "calculate_t_integration" /\ prev.upd /\ ~prev.raised
        /\ InRange("t_int", prev.val)
        /\ ret.op = "calculate_sensitivity" /\ ret.arg = None)
       => ret.used = prev.val

\* C7: a calculate_* call with update_calculator false changes nothing in
\* the calculator (stored t_int and sensitivity, every input, the snapshot,
\* the derived parameters), with or without an explicit argument; an explicit
\* argument is checked against the parameter's bounds and the call raises
\* exactly when it is outside them.
C7_NoUpdateLeavesStateUnchanged ==
    [][ (nops' = nops + 1 /\ ret'.op \in CalcOps /\ ~ret'.upd)
        => /\ UNCHANGED calcState
           /\ ret'.raised <=>
                 /\ ret'.arg # None
                 /\ ~InRange(IF ret'.op = "calculate_sensitivity"
                             THEN "t_int" ELSE "sensitivity", ret'.arg)
      ]_vars

\* An explicit, valid t_int different from the stored one was supplied with
\* update_calculator false and the call returned a result.
C7_Witness ==
    /\ ret.op = "calculate_sensitivity" /\ ~ret.upd /\ ~ret.raised
    /\ ret.arg # None /\ ret.arg # _calculation_inputs.t_int
    /\ ret.val # None

\* C8: a constructor call whose user_input has a key that is not a UserInput
\* field fails with the naming error before the Config is built and before
\* any derived parameter is computed, and leaves no calculator state.
C8_UnknownNameRejectedFirst ==
    (pc # "new" /\ \E param \in DOMAIN ctor.user_input :
                       param \notin UserInputFields)
    => /\ pc = "failed"
       /\ ctor.error = "naming"
       /\ ~ctor.config_built
       /\ ~ctor.derived_computed
       /\ _calculation_inputs = NoInputs
       /\ _original_inputs = NoInputs
       /\ _derived_parameters = NoDerived

\* The constructor was given an unknown key together with an out-of-range
\* obs_freq, and failed.
C8_Witness ==
    /\ pc = "failed"
    /\ "foo" \in DOMAIN ctor.user_input
    /\ "obs_freq" \in DOMAIN ctor.user_input
    /\ ~InRange("obs_freq", ctor.user_input["obs_freq"])

C10_RoundTrip ==
    (/\ prev.op = "calculate_sensitivity" /\ ~prev.upd /\ ~prev.raised
     /\ prev.arg # None
     /\ ret.op = "calculate_t_integration" /\ ~ret.upd
     /\ ret.arg = prev.val
     /\ InRange("sensitivity", prev.val))
    => /\ ~ret.raised
       /\ 100 * (ret.val.v - prev.arg.v) <= prev.arg.v
       /\ 100 * (prev.arg.v - ret.val.v) <= prev.arg.v

\* A round trip of two hours given in seconds came back in hours, through a
\* sensitivity in mJy, with two polarisations and the wide band.
C10_Witness ==
    /\ prev.op = "calculate_sensitivity" /\ prev.arg = Q(7200, "s")
    /\ prev.val.unit = "mJy"
    /\ ret.op = "calculate_t_integration" /\ ret.arg = prev.val
    /\ ret.val = Q(7200, "h")
    /\ _calculation_inputs.n_pol.v = 2
    /\ _calculation_inputs.bandwidth.v = 12

\* C11: a find_applicable_instruments() call returns exactly the instruments
\* that have at least one frequency interval with min < obs_freq < max and at
\* least one bandwidth interval with min < bandwidth < max.  A value equal to
\* an endpoint matches on neither side of it: the (120, 360) interval of
\* finer matches 200 and matches neither 120 nor 360.  An instrument matched
\* on one criterion only is not returned.
C11_ApplicableInstruments ==
    ret.op = "find_applicable_instruments"
    => LET f == Magnitude(_calculation_inputs.obs_freq)
           b == Magnitude(_calculation_inputs.bandwidth)
           FreqHit(name) == \E k \in DOMAIN instrument_obs_freqs[name] :
                               /\ instrument_obs_freqs[name][k][1] < f
                               /\ f < instrument_obs_freqs[name][k][2]
           BandwHit(name) == \E k \in DOMAIN instrument_bandw_vals[name] :
                               /\ instrument_bandw_vals[name][k][1] < b
                               /\ b < instrument_bandw_vals[name][k][2]
       IN  /\ ret.names \subseteq ToSet(InstrumentNames)
           /\ \A name \in ToSet(InstrumentNames) :
                 name \in ret.names <=> (FreqHit(name) /\ BandwHit(name))
           /\ f \in {120, 360} => "finer" \notin ret.names
           /\ (f = 200 /\ b > 10500 /\ b < 3000000) => "finer" \in ret.names

\* At 360 GHz with a 4 GHz band only gltcam is returned: 360 is the upper
\* endpoint of finer and of tifuun, and sepia matches on frequency alone.
C11_Witness ==
    /\ ret.op = "find_applicable_instruments"
    /\ _calculation_inputs.obs_freq = Q(360, "GHz")
    /\ _calculation_inputs.bandwidth = Q(4, "GHz")
    /\ ret.names = {"gltcam"}

\* The states whose derived snapshot was computed from the current inputs by
\* the operation just made: construction, or an accepted assignment to a
\* field that feeds the derivation.
DerivedJustComputed ==
    /\ pc = "ready"
    /\ \/ nops = 0
       \/ /\ ret.op \in {"obs_freq", "bandwidth", "weather", "elevation",
                         "dish_radius"}
          /\ ~ret.raised

\* Number of atmosphere-table frequencies strictly inside the current band.
GridPointsInBand ==
    Len(FinetuneChannels(_calculation_inputs,
                         _derived_parameters.eta_a).obs_freq_list) - 2

\* C12: with finetune enabled, whenever fewer than 2 grid frequencies lie
\* strictly inside the band (0 or 1 grid point) the SEFD in the derived
\* snapshot is the simple-mode SEFD, evaluated once at the band centre.
C12_FinetuneFallsBack ==
    (DerivedJustComputed /\ _finetune /\ GridPointsInBand < 2)
    => _derived_parameters.sefd =
           _calculate_sefd(_derived_parameters.T_sys,
                           _derived_parameters.eta_a,
                           _calculation_inputs.dish_radius.v)

C14_OutOfRangeArgumentRejected ==
    [][ ( /\ nops' = nops + 1
          /\ ret'.op \in CalcOps
          /\ ret'.upd
          /\ ret'.arg # None
          /\ ~InRange(IF ret'.op = "calculate_sensitivity"
                      THEN "t_int" ELSE "sensitivity", ret'.arg) )
        => ( /\ ret'.raised
             /\ ret'.val = None
             /\ UNCHANGED <<_calculation_inputs, _original_inputs,
                            sensitivity, t_int, _derived_parameters>> ) ]_vars

\* C15: a calculation made without an argument right after reset() uses the
\* construction-time value: calculate_sensitivity() the construction-time
\* t_int, calculate_t_integration() the construction-time sensitivity,
\* whatever earlier calculations with update_calculator true had committed.
C15_ResetRestoresCalculationTargets ==
    ( /\ prev.op = "reset"
      /\ ret.op \in CalcOps
      /\ ret.arg = None
      /\ ~ret.raised )
    => ret.used = IF ret.op = "calculate_sensitivity"
                  THEN ctor.inputs.t_int
                  ELSE ctor.inputs.sensitivity

====
